---- MODULE Spec2Model ----
(***************************************************************************)
(* Short-course planner of oars_gb_pkg/helpers/path_planning/              *)
(* short_course_planner.py: the planning step of the __main__ course loop  *)
(* (path_angle, angles_ranges, recalculate_path, targetPos) and the        *)
(* steering loop that sails the boat to targetPos.                         *)
(*                                                                         *)
(* Arithmetic is fixed point.  Lengths and positions are in hundredths of  *)
(* a distance unit (U), sines and cosines in ten-thousandths (TRIG), and   *)
(* angles are whole degrees on a 5 degree grid.  path_angle, the one angle *)
(* that is not on the grid, is kept as the atan argument it is computed    *)
(* from and compared exactly.                                              *)
(***************************************************************************)
EXTENDS Integers, Sequences, FiniteSets, TLC

\* ---------------------------------------------------------------- bounds
MaxTargets == 2
MaxObstacles == 2
MaxTicks == 20

\* ------------------------------------------------------- program constants
Pad == 5
ArrivalRadius == 5
StepLength == 4
InitialHeading == 0
\* polar curve of the efficiency model (defaults of the parameter table)
NoGo == 45
PhiMax == 100
RiseSlope == 40
FallSlope == 11

\* fixed-point resolution: U per distance unit, TRIG per unit of sine/cosine
Resolution == [length |-> 100, trig |-> 10000]
U == Resolution.length
TRIG == Resolution.trig

\* ------------------------------------------------------------ input sets
WindSet == {0, 90}
TargetSet == {<<0, 40>>, <<40, 40>>, <<40, 0>>, <<0, -40>>}
\* obstacles as the source stores them: [name, end_angle, start_angle]
ObstacleSet ==
  { <<"obj", 110, 80>>, <<"obj", 95, -80>>, <<"obj", 90, 45>>,
    <<"obj", 10, -10>>, <<"obj", 150, -200>> }

SeqsUpTo(S, n) == UNION { [1..k -> S] : k \in 0..n }

\* ------------------------------------------------------------ arithmetic
Abs(a) == IF a < 0 THEN -a ELSE a
Sgn(a) == IF a < 0 THEN -1 ELSE IF a > 0 THEN 1 ELSE 0
\* float division, truncated toward zero at the fixed-point resolution
TDiv(a, b) == Sgn(a) * Sgn(b) * (Abs(a) \div Abs(b))

RECURSIVE SqrtIter(_, _)
SqrtIter(n, x) ==
  LET y == (x + n \div x) \div 2
  IN  IF y >= x THEN x ELSE SqrtIter(n, y)
\* floor of the square root, by Newton's iteration from above
Sqrt(n) == IF n <= 0 THEN 0 ELSE SqrtIter(n, IF n > 46340 THEN 46341 ELSE n)

CosTable ==
  << 10000, 9962, 9848, 9659, 9397, 9063, 8660, 8192, 7660, 7071,
     6428, 5736, 5000, 4226, 3420, 2588, 1736, 872, 0 >>
Norm360(a) == a % 360
Cos(a) ==
  LET n == Norm360(a)
  IN  IF n <= 90 THEN CosTable[n \div 5 + 1]
      ELSE IF n <= 180 THEN -CosTable[(180 - n) \div 5 + 1]
      ELSE IF n <= 270 THEN -CosTable[(n - 180) \div 5 + 1]
      ELSE CosTable[(360 - n) \div 5 + 1]
Sin(a) == Cos(a - 90)

magnitude(arr) == Sqrt(arr[1] * arr[1] + arr[2] * arr[2])

\* ------------------------------------------------ polar efficiency model
\* angle between a heading and the upwind direction wind_angle + 180, in 0..180
OffWind(wind_angle, boat_angle) ==
  LET d == Norm360(boat_angle - wind_angle - 180)
  IN  IF d > 180 THEN 360 - d ELSE d

\* s(phi): 0 in the no-go zone, rising to PhiMax, falling to 0.6 of the peak
PolarSpeed(phi) ==
  IF phi <= NoGo THEN 0
  ELSE IF phi <= PhiMax THEN RiseSlope * (phi - NoGo)
  ELSE RiseSlope * (PhiMax - NoGo) - FallSlope * (phi - PhiMax)

\* ShortCoursePlanner._get_polar_efficiency: (s cos theta, s sin theta)
get_polar_efficiency(wind_angle, boat_angle) ==
  LET s == PolarSpeed(OffWind(wind_angle, boat_angle))
  IN  << TDiv(s * Cos(boat_angle), TRIG), TDiv(s * Sin(boat_angle), TRIG) >>

\* ------------------------------------------------------- recalculate_path
\* the loop body with >= for >: a later candidate of equal speed wins
UpdateBestGe(best, wind_angle, angle_range) ==
  LET max_angle == angle_range[2] + wind_angle
      min_angle == angle_range[1] + wind_angle
      max_ang_velocity == get_polar_efficiency(wind_angle, max_angle)
      min_ang_velocity == get_polar_efficiency(wind_angle, min_angle)
      b1 == IF magnitude(max_ang_velocity) >= best.max_velocity
            THEN [max_velocity |-> magnitude(max_ang_velocity),
                  max_abs_angle |-> max_angle - wind_angle]
            ELSE best
  IN  IF magnitude(min_ang_velocity) >= b1.max_velocity
      THEN [max_velocity |-> magnitude(min_ang_velocity),
            max_abs_angle |-> min_angle - wind_angle]
      ELSE b1

\* one pass of the loop body over an angle range: the upper bound is scored
\* first, then the lower; a candidate replaces the best only when strictly
\* faster
UpdateBest(best, wind_angle, angle_range) ==
  LET max_angle == angle_range[2] + wind_angle
      min_angle == angle_range[1] + wind_angle
      max_ang_velocity == get_polar_efficiency(wind_angle, max_angle)
      min_ang_velocity == get_polar_efficiency(wind_angle, min_angle)
      b1 == IF magnitude(max_ang_velocity) > best.max_velocity
            THEN [max_velocity |-> magnitude(max_ang_velocity),
                  max_abs_angle |-> max_angle - wind_angle]
            ELSE best
  IN  IF magnitude(min_ang_velocity) > b1.max_velocity
      THEN [max_velocity |-> magnitude(min_ang_velocity),
            max_abs_angle |-> min_angle - wind_angle]
      ELSE b1

RECURSIVE BestOver(_, _, _, _)
BestOver(best, wind_angle, angle_ranges, k) ==
  IF k > Len(angle_ranges) THEN best
  ELSE BestOver(UpdateBest(best, wind_angle, angle_ranges[k]),
                wind_angle, angle_ranges, k + 1)

\* dot_product / optimal_path_distance**2, in units of 1/TRIG
Coefficient(dot_product, dist2) ==
  IF dist2 < 20 * TRIG
  THEN TDiv(dot_product * TRIG, dist2)
  ELSE TDiv(dot_product, TDiv(dist2, TRIG))

Project(original_path, max_abs_angle) ==
  LET path_distance == magnitude(original_path)
      optimal_path ==
        << TDiv(2 * path_distance * Cos(max_abs_angle), TRIG),
           TDiv(2 * path_distance * Sin(max_abs_angle), TRIG) >>
      dot_product == optimal_path[1] * original_path[1]
                     + optimal_path[2] * original_path[2]
      optimal_path_distance == magnitude(optimal_path)
      c == Coefficient(dot_product, optimal_path_distance * optimal_path_distance)
  IN  << TDiv(c * optimal_path[1], TRIG), TDiv(c * optimal_path[2], TRIG) >>

recalculate_path(wind_angle, angle_ranges, original_path) ==
  LET best == BestOver([max_velocity |-> 0, max_abs_angle |-> 0],
                       wind_angle, angle_ranges, 1)
  IN  [ max_velocity |-> best.max_velocity,
        max_abs_angle |-> best.max_abs_angle,
        projected_path |-> Project(original_path, best.max_abs_angle) ]

\* --------------------------------------------------------- planning step
\* path_angle: atan(y / x) in degrees when x # 0, the constant 90 otherwise
PathAngle(original_path) ==
  IF original_path[1] # 0
  THEN [kind |-> "atan", deg |-> 0,
        y |-> original_path[2], x |-> original_path[1]]
  ELSE [kind |-> "deg", deg |-> 90, y |-> 0, x |-> 0]

\* a < path_angle, for a in whole degrees; atan ranges over (-90, 90)
Below(a, pa) ==
  IF pa.kind = "deg" THEN a < pa.deg
  ELSE IF a >= 90 THEN FALSE
  ELSE IF a <= -90 THEN TRUE
  ELSE Sin(a) * Abs(pa.x) < Cos(a) * pa.y * Sgn(pa.x)

\* path_angle < b
Above(b, pa) ==
  IF pa.kind = "deg" THEN pa.deg < b
  ELSE IF b >= 90 THEN TRUE
  ELSE IF b <= -90 THEN FALSE
  ELSE Cos(b) * pa.y * Sgn(pa.x) < Sin(b) * Abs(pa.x)

\* the blocking test with <= for <: a path on a boundary counts as blocked
BlocksInclusive(obstacle, pa) ==
  ~Above(obstacle[3], pa) /\ ~Below(obstacle[2], pa)

\* obstacle[2] < path_angle < obstacle[1]
Blocks(obstacle, pa) == Below(obstacle[3], pa) /\ Above(obstacle[2], pa)

PaddedRange(obstacle) == << obstacle[3] - Pad, obstacle[2] + Pad >>

RECURSIVE AnglesRanges(_, _, _)
AnglesRanges(obs, pa, k) ==
  IF k > Len(obs) THEN << >>
  ELSE (IF Blocks(obs[k], pa) THEN << PaddedRange(obs[k]) >> ELSE << >>)
       \o AnglesRanges(obs, pa, k + 1)

\* ------------------------------------------------------------------ state
VARIABLES
  windDir,        \* wind angle, read once
  targetList,     \* the course, positions in U
  obstacles,      \* [name, end_angle, start_angle] each
  boat,           \* the boat turtle: position in U, heading as a direction
  i,              \* index in targetList of the waypoint of this iteration
  targetPos,      \* the loop variable, rebound to the recalculated path
  original_path,
  path_angle,
  angles_ranges,
  path,
  max_velocity,   \* recalculate_path's locals at its last return
  max_abs_angle,
  ticks,          \* steering-loop iterations for the current waypoint
  pc              \* "plan": top of the for body; "steer": at the while test

vars == << windDir, targetList, obstacles, boat, i, targetPos, original_path,
           path_angle, angles_ranges, path, max_velocity, max_abs_angle,
           ticks, pc >>

Scaled(p) == << p[1] * U, p[2] * U >>
Direction(deg) == << Cos(deg), Sin(deg) >>

Init ==
  /\ windDir \in WindSet
  /\ targetList \in { [k \in DOMAIN t |-> Scaled(t[k])] :
                        t \in SeqsUpTo(TargetSet, MaxTargets) \ {<< >>} }
  /\ obstacles \in SeqsUpTo(ObstacleSet, MaxObstacles)
  /\ boat = [pos |-> << 0, 0 >>, heading |-> Direction(InitialHeading)]
  /\ i = 1
  /\ targetPos = targetList[Len(targetList)]
  /\ original_path = << 0, 0 >>
  /\ path_angle = PathAngle(<< 0, 0 >>)
  /\ angles_ranges = << >>
  /\ path = << 0, 0 >>
  /\ max_velocity = 0
  /\ max_abs_angle = 0
  /\ ticks = 0
  /\ pc = "plan"

\* boat.distance(targetPos) > 5
Far(pos, target) ==
  LET dx == Abs(pos[1] - target[1])
      dy == Abs(pos[2] - target[2])
      r  == ArrivalRadius * U
  IN  dx > r \/ dy > r \/ dx * dx + dy * dy > r * r

\* planner.run: the heading along the planned path (east for a null path)
run(p, wind, heading, position) ==
  LET m == magnitude(p)
  IN  IF m = 0 THEN Direction(0)
      ELSE << TDiv(p[1] * TRIG, m), TDiv(p[2] * TRIG, m) >>

\* boat.forward(distance) along the boat's heading
forward(b, distance) ==
  [b EXCEPT !.pos = << b.pos[1] + TDiv(distance * U * b.heading[1], TRIG),
                       b.pos[2] + TDiv(distance * U * b.heading[2], TRIG) >>]

\* lines 129-164: one waypoint's planning, up to the while test
Plan ==
  /\ pc = "plan"
  /\ LET op == << targetList[i][1] - boat.pos[1], targetList[i][2] - boat.pos[2] >>
         pa == PathAngle(op)
         ar == AnglesRanges(obstacles, pa, 1)
         rc == recalculate_path(windDir, ar, op)
     IN  /\ original_path' = op
         /\ path_angle' = pa
         /\ IF Len(obstacles) > 0
            THEN /\ angles_ranges' = ar
                 /\ path' = rc.projected_path
                 /\ targetPos' = rc.projected_path
                 /\ max_velocity' = rc.max_velocity
                 /\ max_abs_angle' = rc.max_abs_angle
            ELSE /\ angles_ranges' = << >>
                 /\ path' = op
                 /\ targetPos' = targetList[i]
                 /\ UNCHANGED << max_velocity, max_abs_angle >>
  /\ ticks' = 0
  /\ pc' = "steer"
  /\ UNCHANGED << windDir, targetList, obstacles, boat, i >>

\* lines 165-178: one pass of the steering loop body
Steer ==
  /\ pc = "steer"
  /\ Far(boat.pos, targetPos)
  /\ ticks < MaxTicks
  /\ LET boatNewDir == run(path, windDir, boat.heading, boat.pos)
     IN  boat' = forward([boat EXCEPT !.heading = boatNewDir], StepLength)
  /\ ticks' = ticks + 1
  /\ UNCHANGED << windDir, targetList, obstacles, i, targetPos, original_path,
                  path_angle, angles_ranges, path, max_velocity, max_abs_angle,
                  pc >>

\* the while test fails: on to the next waypoint, or off the end of the list
Arrive ==
  /\ pc = "steer"
  /\ ~Far(boat.pos, targetPos)
  /\ IF i < Len(targetList)
     THEN /\ i' = i + 1
          /\ pc' = "plan"
     ELSE /\ i' = i
          /\ pc' = "done"
  /\ UNCHANGED << windDir, targetList, obstacles, boat, targetPos,
                  original_path, path_angle, angles_ranges, path,
                  max_velocity, max_abs_angle, ticks >>

Next == Plan \/ Steer \/ Arrive

Spec == Init /\ [][Next]_vars

\* ============================================================= properties
\* the waypoint of the current iteration of the for loop
W == targetList[i]

\* the planning step of the current waypoint has run
Planned == pc = "steer"

\* the planning step has just run: the boat is where the plan was made
JustPlanned == pc = "steer" /\ ticks = 0

\* the direction path_angle stands for: atan folds the displacement into the
\* right half plane, and a null x reads as 90 degrees
PathDir ==
  IF path_angle.kind = "deg" THEN Direction(path_angle.deg)
  ELSE << Abs(path_angle.x), path_angle.y * Sgn(path_angle.x) >>

Cross(u, v) == u[1] * v[2] - u[2] * v[1]
Dot(u, v) == u[1] * v[1] + u[2] * v[2]

\* alpha_min < theta_path < alpha_max, both strict, stated on directions: the
\* path direction lies counter-clockwise of alpha_min and clockwise of
\* alpha_max
StrictlyInside(alpha_min, alpha_max) ==
  IF path_angle.kind = "deg"
  THEN alpha_min < path_angle.deg /\ path_angle.deg < alpha_max
  ELSE /\ alpha_min < 90
       /\ alpha_min <= -90 \/ Cross(Direction(alpha_min), PathDir) > 0
       /\ alpha_max > -90
       /\ alpha_max >= 90 \/ Cross(PathDir, Direction(alpha_max)) > 0

Blocking(k) == StrictlyInside(obstacles[k][3], obstacles[k][2])

\* the boundary angles of the forbidden intervals of this call
Candidates == { angles_ranges[k][j] : k \in DOMAIN angles_ranges, j \in 1..2 }

\* the speed the planner predicts for a candidate, as recalculate_path scores it
Score(c) == magnitude(get_polar_efficiency(windDir, c + windDir))

\* the polar speed at the world-frame heading c
WorldSpeed(c) == magnitude(get_polar_efficiency(windDir, c))

\* every obstacle is an oriented arc of less than 180 degrees
ValidObstacles ==
  \A k \in DOMAIN obstacles :
    /\ obstacles[k][3] < obstacles[k][2]
    /\ obstacles[k][2] - obstacles[k][3] < 180

\* the displacement lies where atan and the null-x default read its angle
\* right: in the right half plane, or straight up.  C1-C4, C6, C8 and C9 are
\* stated on such displacements, so that none of them fails by the reading
\* of the angle alone (C10)
TrueAngle ==
  original_path[1] > 0 \/ (original_path[1] = 0 /\ original_path[2] > 0)

\* C1: when no obstacle strictly contains the direct-path angle (empty list or
\* only non-blocking obstacles) the plan leaves the path alone: the target is
\* the waypoint and the path steered is the direct path.
C1_Passthrough ==
  (Planned /\ TrueAngle /\ \A k \in DOMAIN obstacles : ~Blocking(k))
    => (targetPos = W /\ path = original_path)

\* C2: when some obstacle blocks, the selected heading is a boundary of a
\* forbidden interval of the call and strictly inside none of them.
C2_Containment ==
  (Planned /\ TrueAngle /\ ValidObstacles /\ \E k \in DOMAIN obstacles : Blocking(k))
    => /\ max_abs_angle \in Candidates
       /\ \A k \in DOMAIN angles_ranges :
            ~(angles_ranges[k][1] < max_abs_angle
              /\ max_abs_angle < angles_ranges[k][2])

\* half a distance unit: the slack allowed to fixed-point rounding
Tol == U \div 2
CeilDiv(a, b) == (a + b - 1) \div b

\* C3: with a blocking obstacle of less than 180 degrees, the interim target
\* is the boat's position plus a non-negative multiple of the selected
\* heading direction, at most 2|p| away: on the ray, never behind the boat.
C3_ProjectionForward ==
  (JustPlanned /\ TrueAngle /\ ValidObstacles
     /\ \E k \in DOMAIN obstacles : Blocking(k))
    => LET d == << targetPos[1] - boat.pos[1], targetPos[2] - boat.pos[2] >>
           u == Direction(max_abs_angle)
       IN  /\ Abs(Cross(u, d)) <= Tol * TRIG
           /\ Dot(u, d) >= -(Tol * TRIG)
           /\ magnitude(d) <= 2 * magnitude(original_path) + Tol

\* C4: the steering loop for W runs exactly while the boat is more than 5
\* from W itself, so it is left only within 5 units of W (stated for a
\* blocked path, where the interim target differs from W).
C4_ArrivalAtWaypoint ==
  [][(pc = "steer" /\ TrueAngle /\ ValidObstacles /\ angles_ranges # << >>)
       => ((pc' # "steer") <=> ~Far(boat.pos, W))]_vars

\* C5: the steering loop for a waypoint at distance |p| takes at most
\* ceil(|p| / 4) ticks plus a small constant (2).
C5_TickBound ==
  (Planned /\ ValidObstacles)
    => ticks <= CeilDiv(magnitude(original_path), StepLength * U) + 2

\* how close a heading is to the path direction: |p| cos(deviation)
Closeness(c) == Dot(Direction(c), PathDir)

\* C6: when the path is blocked and every candidate has speed 0, the selected
\* heading is the candidate nearest theta_path and the boat is not advanced.
C6_Stall ==
  (Planned /\ TrueAngle /\ angles_ranges # << >>
     /\ \A c \in Candidates : Score(c) = 0)
    => /\ max_abs_angle \in Candidates
       /\ \A c \in Candidates : Closeness(max_abs_angle) >= Closeness(c)
       /\ ticks = 0

\* the obstacles, by index, whose interval strictly contains theta_path
BlockingIndexes == SelectSeq([k \in DOMAIN obstacles |-> k], Blocking)

\* C7: the forbidden intervals of a call are exactly (alpha_min - 5,
\* alpha_max + 5) for the obstacles with alpha_min < theta_path < alpha_max,
\* both strict, in order; a theta_path on a boundary is clear.
C7_BlockingTest ==
  JustPlanned =>
    angles_ranges =
      [j \in DOMAIN BlockingIndexes |->
         << obstacles[BlockingIndexes[j]][3] - 5,
            obstacles[BlockingIndexes[j]][2] + 5 >>]

\* C7, its case: theta_path sits exactly on an obstacle's alpha_max (so that obstacle is
\* clear) while another obstacle of the list blocks
C7_Witness ==
  /\ JustPlanned
  /\ path_angle.kind = "deg"
  /\ \E k \in DOMAIN obstacles : obstacles[k][2] = path_angle.deg
  /\ Len(angles_ranges) = 1
  /\ Len(obstacles) = 2

\* C8: candidates are scored at their world-frame angle, and the selected
\* heading is a candidate of maximum such speed.
C8_WorldFrameMax ==
  (Planned /\ TrueAngle /\ ValidObstacles /\ angles_ranges # << >>)
    => /\ max_abs_angle \in Candidates
       /\ max_velocity = WorldSpeed(max_abs_angle)
       /\ \A c \in Candidates : WorldSpeed(max_abs_angle) >= WorldSpeed(c)

\* the candidates in the order recalculate_path scores them
EvalOrder ==
  [n \in 1..(2 * Len(angles_ranges)) |->
     angles_ranges[(n + 1) \div 2][IF n % 2 = 1 THEN 2 ELSE 1]]

Fastest == { c \in Candidates : \A e \in Candidates : Score(c) >= Score(e) }

C10_VerticalAxis ==
  (Planned /\ original_path[1] = 0)
    => /\ original_path[2] > 0 => path_angle.kind = "deg" /\ path_angle.deg = 90
       /\ original_path[2] < 0 =>
            /\ path_angle.kind = "deg" /\ path_angle.deg = 270
            /\ \A k \in DOMAIN obstacles :
                 (obstacles[k][3] < 90 /\ 90 < obstacles[k][2] /\ obstacles[k][2] <= 270)
                   => \A j \in DOMAIN angles_ranges :
                        angles_ranges[j] # PaddedRange(obstacles[k])

====
